---- MODULE Spec2Model ----
(***************************************************************************)
(* Shuffle Battle: a browser front-end that compares two Spotify playlists.*)
(* The repository holds two variants of the same component:                *)
(*   "popularity"  src/src/App.jsx        (the more "underground" playlist)*)
(*   "category"    src/unnamed/part_000   (audio-feature categories)       *)
(* Each variant has a module-level credential cache (token,                *)
(* tokenExpirationTime), the React state (result, isLoading) and the async *)
(* pipeline handleSubmit -> determineWinner -> fetchers -> getToken.       *)
(*                                                                         *)
(* An async function runs synchronously up to its next pending network     *)
(* request; promise continuations are microtasks, which finish before the  *)
(* event loop takes the next network response, timer or click.  So one     *)
(* action is one event-loop task: the click (handleSubmit) or the arrival  *)
(* of an HTTP response, followed by everything the code does until the     *)
(* comparison either waits for its next request or settles.                *)
(*                                                                         *)
(* Optional values (JS null / undefined) are sequences of length 0 or 1:   *)
(* None == <<>>, Some(v) == <<v>>.                                         *)
(*                                                                         *)
(* Numbers: JS computes the means in IEEE doubles.  The model keeps a mean *)
(* as an exact fraction <<sum, length>> and compares fractions by cross    *)
(* multiplication; feature values are integers (fixed point).  The two     *)
(* agree whenever the sums are computed exactly, which holds for integer   *)
(* popularities 0..100.                                                    *)
(***************************************************************************)
EXTENDS Integers, Sequences, FiniteSets, TLC

VARIABLES
    variant,              \* which of the two source files is running
    now,                  \* Date.now(), in milliseconds
    token,                \* module-level cache: the bearer token
    tokenExpirationTime,  \* module-level cache: its expiry, in milliseconds
    result,               \* React state: what is displayed
    isLoading,            \* React state
    slot,                 \* the handleSubmit invocations in flight
    cmp                   \* inputs and output of the comparator taken alone

vars == <<variant, now, token, tokenExpirationTime, result, isLoading, slot, cmp>>

None == <<>>
Some(v) == <<v>>

-----------------------------------------------------------------------------
(* Bounds and program constants                                            *)

\* the clock advances at most MaxTicks times, one second each
MaxTicks == 1
\* longest track / feature list handed to the comparator taken alone
MaxLen == 2

\* expires_in is in seconds, Date.now() in milliseconds
MsPerSecond == 1000
\* {22} in the playlist pattern; id.length === 22 in getAudioFeatures
IdLen == 22
\* error.response.status === 429
RateLimitStatus == 429

\* the handleSubmit invocations that may overlap: the form stays enabled
\* while a comparison runs, so a second click starts a second invocation
Slots == {1, 2}

Variants == {"popularity", "category"}

-----------------------------------------------------------------------------
(* Characters and playlist links                                           *)

RECURSIVE Rep(_, _)
Rep(c, n) == IF n = 0 THEN <<>> ELSE <<c>> \o Rep(c, n - 1)

\* [a-zA-Z0-9], restricted to the characters the inputs below use
Alnum == {"a", "Z", "7", "p", "l", "y", "i", "s", "t", "h", "o", "m", "c"}

PlaylistPrefix == <<"p", "l", "a", "y", "l", "i", "s", "t", "/">>

Id22 == <<"a", "Z", "7">> \o Rep("a", IdLen - 3)
Id21 == <<"a", "Z", "7">> \o Rep("a", IdLen - 4)

\* what the user may have typed in a playlist field
Urls ==
    { <<>>,
      PlaylistPrefix \o Id22,
      <<"s", ".", "c", "o", "/">> \o PlaylistPrefix \o Id22 \o <<"7", "?", "s", "i">>,
      PlaylistPrefix \o Id21 \o <<"-", "a">>,
      <<"p", "l", "a", "y", "l", "i", "s", "t", "s", "/">> \o Id22 }

\* url.match(/playlist\/([a-zA-Z0-9]{22})/): the start of the leftmost match
MatchStarts(url) ==
    { i \in 1..Len(url) :
        /\ i + Len(PlaylistPrefix) + IdLen - 1 <= Len(url)
        /\ SubSeq(url, i, i + Len(PlaylistPrefix) - 1) = PlaylistPrefix
        /\ \A k \in 0..(IdLen - 1) : url[i + Len(PlaylistPrefix) + k] \in Alnum }

\* the pattern without its {22}: "playlist/" followed by any alphanumeric
extractPlaylistIdAnyLength(url) ==
    LET starts == { i \in 1..Len(url) :
                      /\ i + Len(PlaylistPrefix) <= Len(url)
                      /\ SubSeq(url, i, i + Len(PlaylistPrefix) - 1) = PlaylistPrefix
                      /\ url[i + Len(PlaylistPrefix)] \in Alnum } IN
    IF starts = {} THEN None
    ELSE LET i == CHOOSE j \in starts : \A k \in starts : j <= k IN
         Some(SubSeq(url, i + Len(PlaylistPrefix), i + Len(PlaylistPrefix)))

extractPlaylistId(url) ==
    LET starts == MatchStarts(url) IN
    IF starts = {} THEN None
    ELSE LET i == CHOOSE j \in starts : \A k \in starts : j <= k IN
         Some(SubSeq(url, i + Len(PlaylistPrefix), i + Len(PlaylistPrefix) + IdLen - 1))

\* extractPlaylistId on each of the inputs, computed once
PlaylistIdOf[url \in Urls] == extractPlaylistId(url)

-----------------------------------------------------------------------------
(* categoryMapping and the category selector                               *)

Categories == {"Sadder", "Happier", "Energetic", "Danceable", "Louder", "Alive"}

FeatureKeys == {"valence", "energy", "danceability", "loudness", "liveness"}

categoryMapping(category) ==
    CASE category = "Sadder" -> Some("valence")
      [] category = "Happier" -> Some("valence")
      [] category = "Energetic" -> Some("energy")
      [] category = "Danceable" -> Some("danceability")
      [] category = "Louder" -> Some("loudness")
      [] category = "Alive" -> Some("liveness")
      [] OTHER -> None

\* category.toLowerCase()
toLowerCase(category) ==
    CASE category = "Sadder" -> "sadder"
      [] category = "Happier" -> "happier"
      [] category = "Energetic" -> "energetic"
      [] category = "Danceable" -> "danceable"
      [] category = "Louder" -> "louder"
      [] category = "Alive" -> "alive"
      [] OTHER -> category

-----------------------------------------------------------------------------
(* Values exchanged with the upstream API                                  *)

\* a 22-character track id and one of another length
TrackId22 == "4uLU6hMCjMI75M1A2tKUQC"
TrackIdShort == "4uLU6hMC"

\* an entry of response.data.items
Item(id, popularity) == [track |-> Some([id |-> id, popularity |-> popularity])]
NoTrackItem == [track |-> None]

\* what the steps of an async function can end in
Return(v) == [k |-> "return", v |-> v]
Throw(e) == [k |-> "throw", err |-> e]
Await(sl) == [k |-> "await", sl |-> sl]

\* a field a JS object does not have (winner.image of the tie result)
Undefined == "undefined"

RECURSIVE SeqsUpTo(_, _)
SeqsUpTo(S, n) ==
    IF n = 0 THEN {<<>>}
    ELSE LET shorter == SeqsUpTo(S, n - 1) IN
         shorter \cup {Append(q, x) : q \in {r \in shorter : Len(r) = n - 1}, x \in S}

\* v || 0 for an optional number
OrZero(v) == IF v = None THEN 0 ELSE v[1]

-----------------------------------------------------------------------------
(* Popularity variant: tracks, mean, verdict                               *)

\* items.filter(item => item.track && item.track.id).map(...)
PopularityTracks(items) ==
    LET Keep(item) == item.track # None /\ item.track[1].id # None
        kept == SelectSeq(items, Keep) IN
    [i \in 1..Len(kept) |->
        [id |-> kept[i].track[1].id[1],
         popularity |-> OrZero(kept[i].track[1].popularity)]]

RECURSIVE SumPopularity(_)
\* tracks.reduce((sum, track) => sum + (track.popularity || 0), 0)
SumPopularity(tracks) ==
    IF tracks = <<>> THEN 0
    ELSE Head(tracks).popularity + SumPopularity(Tail(tracks))

\* a mean, kept as the fraction <<sum, count>> with count >= 1
calculateAveragePopularity(tracks) ==
    IF Len(tracks) = 0 THEN <<0, 1>>
    ELSE <<SumPopularity(tracks), Len(tracks)>>

\* a < b and a > b on two such fractions
LessThan(a, b) == a[1] * b[2] < b[1] * a[2]
GreaterThan(a, b) == a[1] * b[2] > b[1] * a[2]

UndergroundMessage(name) == name \o " is more underground, smell some good taste in there!"

PopularityVerdictSwapped(tracks1, tracks2, info1, info2) ==
    IF Len(tracks1) = 0 \/ Len(tracks2) = 0
    THEN Throw("One of the playlists has no tracks.")
    ELSE LET avgPopularity1 == calculateAveragePopularity(tracks1)
             avgPopularity2 == calculateAveragePopularity(tracks2) IN
         IF GreaterThan(avgPopularity1, avgPopularity2)
         THEN Return([name |-> info1.name, image |-> info1.image,
                      message |-> UndergroundMessage(info1.name)])
         ELSE IF LessThan(avgPopularity1, avgPopularity2)
         THEN Return([name |-> info2.name, image |-> info2.image,
                      message |-> UndergroundMessage(info2.name)])
         ELSE Return([name |-> Undefined, image |-> Undefined,
                      message |-> "Both playlists are equally underground!"])

\* determineWinner once tracks1, tracks2, info1 and info2 are there
PopularityVerdict(tracks1, tracks2, info1, info2) ==
    IF Len(tracks1) = 0 \/ Len(tracks2) = 0
    THEN Throw("One of the playlists has no tracks.")
    ELSE LET avgPopularity1 == calculateAveragePopularity(tracks1)
             avgPopularity2 == calculateAveragePopularity(tracks2) IN
         IF GreaterThan(avgPopularity1, avgPopularity2)
         THEN Return([name |-> info2.name, image |-> info2.image,
                      message |-> UndergroundMessage(info2.name)])
         ELSE IF LessThan(avgPopularity1, avgPopularity2)
         THEN Return([name |-> info1.name, image |-> info1.image,
                      message |-> UndergroundMessage(info1.name)])
         ELSE Return([name |-> Undefined, image |-> Undefined,
                      message |-> "Both playlists are equally underground!"])

-----------------------------------------------------------------------------
(* Category variant: feature mean, verdict                                 *)

RECURSIVE SumFeature(_, _)
\* audioFeatures.reduce((sum, track) => sum + (track[featureKey] || 0), 0)
\* over entries none of which is null
SumFeature(audioFeatures, featureKey) ==
    IF audioFeatures = <<>> THEN 0
    ELSE OrZero(Head(audioFeatures)[1][featureKey])
            + SumFeature(Tail(audioFeatures), featureKey)

\* the mean of a non-empty feature list, as the fraction <<sum, count>>
AverageFeature(audioFeatures, featureKey) ==
    <<SumFeature(audioFeatures, featureKey), Len(audioFeatures)>>

CategoryVerdictHigherSadder(audioFeatures1, audioFeatures2, category) ==
    LET featureKey == categoryMapping(category)[1] IN
    IF \E i \in 1..Len(audioFeatures1) : audioFeatures1[i] = None
    THEN Throw("TypeError")
    ELSE IF \E i \in 1..Len(audioFeatures2) : audioFeatures2[i] = None
    THEN Throw("TypeError")
    ELSE LET avgFeature1 == AverageFeature(audioFeatures1, featureKey)
             avgFeature2 == AverageFeature(audioFeatures2, featureKey) IN
         IF GreaterThan(avgFeature1, avgFeature2)
         THEN Return(IF category = "Sadder" THEN "Playlist 1 is sadder"
                     ELSE "Playlist 1 is more " \o toLowerCase(category))
         ELSE Return(IF category = "Sadder" THEN "Playlist 2 is sadder"
                     ELSE "Playlist 2 is more " \o toLowerCase(category))

\* determineWinner once audioFeatures1 and audioFeatures2 are there.  Both are
\* arrays, so the !audioFeatures1 || !audioFeatures2 test never throws; a null
\* entry (the API's answer for an unknown track) makes track[featureKey] a
\* TypeError inside the try block.
CategoryVerdict(audioFeatures1, audioFeatures2, category) ==
    LET featureKey == categoryMapping(category)[1] IN
    IF \E i \in 1..Len(audioFeatures1) : audioFeatures1[i] = None
    THEN Throw("TypeError")
    ELSE IF \E i \in 1..Len(audioFeatures2) : audioFeatures2[i] = None
    THEN Throw("TypeError")
    ELSE LET avgFeature1 == AverageFeature(audioFeatures1, featureKey)
             avgFeature2 == AverageFeature(audioFeatures2, featureKey) IN
         IF category = "Sadder"
         THEN Return(IF LessThan(avgFeature1, avgFeature2)
                     THEN "Playlist 1 is sadder" ELSE "Playlist 2 is sadder")
         ELSE Return(IF GreaterThan(avgFeature1, avgFeature2)
                     THEN "Playlist 1 is more " \o toLowerCase(category)
                     ELSE "Playlist 2 is more " \o toLowerCase(category))

-----------------------------------------------------------------------------
(* HTTP responses (axios rejects on every non-2xx status)                  *)

HttpFailure(status) == [ok |-> FALSE, status |-> status]
\* a rate-limit answer and some other failure
HttpFailures == {HttpFailure(RateLimitStatus), HttpFailure(500)}

\* POST https://accounts.spotify.com/api/token: two grants, of one and of two
\* seconds
TokenGrants ==
    { [ok |-> TRUE, access_token |-> "tokenA", expires_in |-> 1],
      [ok |-> TRUE, access_token |-> "tokenB", expires_in |-> 2] }

TokenResponses == HttpFailures \cup TokenGrants

\* GET /v1/playlists/{id}/tracks: the item lists the pipeline is run on
TrackItems ==
    IF variant = "popularity"
    THEN { None, Some(<<>>),
           Some(<<NoTrackItem>>),
           Some(<<Item(None, Some(10))>>),
           Some(<<Item(Some(TrackId22), Some(10))>>),
           Some(<<Item(Some(TrackId22), Some(20))>>),
           Some(<<NoTrackItem, Item(Some(TrackId22), Some(20))>>) }
    ELSE { None, Some(<<>>),
           Some(<<NoTrackItem>>),
           Some(<<Item(None, Some(10))>>),
           Some(<<Item(Some(TrackId22), Some(10))>>),
           Some(<<Item(Some(TrackIdShort), Some(10))>>),
           Some(<<Item(None, None), Item(Some(TrackId22), None)>>) }

TracksResponses == HttpFailures \cup {[ok |-> TRUE, items |-> i] : i \in TrackItems}

\* GET /v1/playlists/{id}: each playlist has its own name and cover
PlaylistName(side) == IF side = 1 THEN "Playlist One" ELSE "Playlist Two"
PlaylistCover(side) == IF side = 1 THEN "cover1.jpg" ELSE "cover2.jpg"

InfoResponses(side) ==
    HttpFailures \cup
    {[ok |-> TRUE, name |-> PlaylistName(side), images |-> im] :
        im \in { None, Some(<<>>), Some(<<[url |-> None]>>),
                 Some(<<[url |-> Some(PlaylistCover(side))]>>) }}

\* an entry of audio_features: valence, energy (also danceability), loudness
FeatureRecord(valence, energy, loudness) ==
    [key \in FeatureKeys |->
        CASE key = "valence" -> valence
          [] key = "energy" -> energy
          [] key = "danceability" -> energy
          [] key = "loudness" -> loudness
          [] OTHER -> None]

\* GET /v1/audio-features?ids=...
FeaturesResponses ==
    HttpFailures \cup
    {[ok |-> TRUE, audio_features |-> af] :
        af \in { None, Some(<<>>), Some(<<None>>),
                 Some(<<Some(FeatureRecord(Some(2), Some(8), Some(-6)))>>),
                 Some(<<Some(FeatureRecord(Some(8), None, Some(-3)))>>) }}

-----------------------------------------------------------------------------
(* Credential provider                                                     *)

\* token && tokenExpirationTime > Date.now()
TokenValidAtOrAfter == token # None /\ tokenExpirationTime[1] >= now

TokenValid == token # None /\ tokenExpirationTime[1] > now

\* Date.now() + response.data.expires_in * 1000
Expiry(resp) == now + resp.expires_in * MsPerSecond

-----------------------------------------------------------------------------
(* Fetchers: what each returns or throws for a response                    *)

\* the Error every catch block of a fetcher throws in place of what it caught
FetcherError(call) ==
    CASE call \in {"tracks1", "tracks2"} -> "Failed to fetch playlist data"
      [] call \in {"info1", "info2"} -> "Failed to fetch playlist info"
      [] OTHER -> "Failed to fetch audio features"

\* getPlaylistTracks after its request; the category variant maps before it
\* filters, so item.track.id of an entry without track is a TypeError
getPlaylistTracks(resp) ==
    IF ~resp.ok THEN Throw(FetcherError("tracks1"))
    ELSE IF resp.items = None \/ Len(resp.items[1]) = 0
    THEN Throw(FetcherError("tracks1"))
    ELSE LET items == resp.items[1] IN
         IF variant = "popularity" THEN Return(PopularityTracks(items))
         ELSE IF \E i \in 1..Len(items) : items[i].track = None
         THEN Throw(FetcherError("tracks1"))
         ELSE LET Truthy(id) == id # None
                  ids == SelectSeq([i \in 1..Len(items) |-> items[i].track[1].id], Truthy) IN
              Return([i \in 1..Len(ids) |-> ids[i][1]])

\* getPlaylistInfo after its request: images[0]?.url || ""
getPlaylistInfo(resp) ==
    IF ~resp.ok THEN Throw(FetcherError("info1"))
    ELSE IF resp.images = None THEN Throw(FetcherError("info1"))
    ELSE LET images == resp.images[1] IN
         Return([name |-> resp.name,
                 image |-> IF Len(images) = 0 \/ images[1].url = None THEN ""
                           ELSE images[1].url[1]])

\* trackIds.filter(id => id && id.length === 22)
validTrackIds(trackIds) ==
    LET Valid(id) == Len(id) = IdLen IN SelectSeq(trackIds, Valid)

\* the catch block of getAudioFeatures: the two branches differ in what they
\* log to the console, and both fall through to the same throw
getAudioFeaturesCatch(resp) ==
    IF ~resp.ok /\ resp.status = RateLimitStatus
    THEN Throw("Failed to fetch audio features")
    ELSE Throw("Failed to fetch audio features")

\* getAudioFeatures after its request
getAudioFeatures(resp) ==
    IF ~resp.ok THEN getAudioFeaturesCatch(resp)
    ELSE IF resp.audio_features = None \/ Len(resp.audio_features[1]) = 0
    THEN getAudioFeaturesCatch(resp)
    ELSE Return(resp.audio_features[1])

-----------------------------------------------------------------------------
(* One handleSubmit invocation                                             *)

\* call: the fetch determineWinner is awaiting ("none": not running)
\* wait: "token" while getToken awaits the exchange, "data" while the fetcher
\*       awaits its own request; bearer is the token that request carries
\* superseded: a later handleSubmit has started since this one did
IdleSlot ==
    [call |-> "none", wait |-> "none", bearer |-> None, category |-> "",
     tracks1 |-> None, tracks2 |-> None, info1 |-> None, audioFeatures1 |-> None,
     superseded |-> FALSE]

InFlight(s) == slot[s].call # "none"

\* the body of a fetcher after "const token = await getToken()"
WithToken(sl, tok) ==
    IF sl.call \in {"features1", "features2"}
         /\ validTrackIds(IF sl.call = "features1" THEN sl.tracks1[1] ELSE sl.tracks2[1]) = <<>>
    THEN Throw(FetcherError(sl.call))
    ELSE Await([sl EXCEPT !.wait = "data", !.bearer = Some(tok)])

\* determineWinner calls a fetcher, whose first statement awaits getToken()
Call(sl, call) ==
    LET running == [sl EXCEPT !.call = call, !.bearer = None] IN
    IF TokenValid THEN WithToken(running, token[1])
    ELSE Await([running EXCEPT !.wait = "token"])

\* determineWinner once a getPlaylistTracks call has returned
AfterTracks(sl, tracks) ==
    IF sl.call = "tracks1"
    THEN Call([sl EXCEPT !.tracks1 = Some(tracks)], "tracks2")
    ELSE LET both == [sl EXCEPT !.tracks2 = Some(tracks)] IN
         IF variant = "popularity" THEN Call(both, "info1")
         ELSE IF Len(both.tracks1[1]) = 0 \/ Len(tracks) = 0
         THEN Return("One of the playlists has no tracks.")
         ELSE Call(both, "features1")

\* determineWinner once a getPlaylistInfo call has returned
AfterInfo(sl, info) ==
    IF sl.call = "info1"
    THEN Call([sl EXCEPT !.info1 = Some(info)], "info2")
    ELSE PopularityVerdict(sl.tracks1[1], sl.tracks2[1], sl.info1[1], info)

\* determineWinner once a getAudioFeatures call has returned
AfterFeatures(sl, audioFeatures) ==
    IF sl.call = "features1"
    THEN Call([sl EXCEPT !.audioFeatures1 = Some(audioFeatures)], "features2")
    ELSE CategoryVerdict(sl.audioFeatures1[1], audioFeatures, sl.category)

\* the catch block of determineWinner
determineWinnerCatch(step) ==
    IF step.k = "throw" THEN Throw("Failed to determine winner") ELSE step

\* a status message as the variant's result state holds it
Status(message) ==
    IF variant = "popularity" THEN [message |-> message, image |-> "", name |-> ""]
    ELSE message

\* a catch block that displays the message of the Error it caught
OutcomeShowsMessage(step) ==
    IF step.k = "return" THEN step.v ELSE Status(step.err)

\* try { setResult(await determineWinner(...)) } catch { setResult(...) }
Outcome(step) ==
    IF step.k = "return" THEN step.v ELSE Status("Error fetching playlist data!")

\* the invocation in slot s goes on with step: it awaits its next request, or
\* it settles (setResult, then finally setIsLoading(false))
Resume(s, step) ==
    LET end == determineWinnerCatch(step) IN
    IF end.k = "await"
    THEN /\ slot' = [slot EXCEPT ![s] = end.sl]
         /\ UNCHANGED <<result, isLoading>>
    ELSE /\ slot' = [slot EXCEPT ![s] = IdleSlot]
         /\ result' = Outcome(end)
         /\ isLoading' = FALSE

-----------------------------------------------------------------------------
(* The form                                                                *)

\* the options of the category selector the pipeline is run with ("" is the
\* placeholder); the popularity variant has no selector
CategoryChoices ==
    IF variant = "popularity" THEN {""} ELSE {"", "Sadder", "Energetic"}

\* the two early returns of handleSubmit: the status to show, if any
Validation(playlist1, playlist2, category) ==
    IF playlist1 = <<>> \/ playlist2 = <<>> \/ (variant = "category" /\ category = "")
    THEN Some("Please fill in all fields!")
    ELSE IF PlaylistIdOf[playlist1] = None \/ PlaylistIdOf[playlist2] = None
    THEN Some("Invalid playlist link!")
    ELSE None

\* determineWinner up to its first await
determineWinner(category) ==
    IF variant = "category" /\ categoryMapping(category) = None
    THEN Return("Invalid category")
    ELSE determineWinnerCatch(Call([IdleSlot EXCEPT !.category = category], "tracks1"))

\* the slot a new invocation is kept in: the first one not in flight (0: none)
FreeSlot ==
    IF \A t \in Slots : InFlight(t) THEN 0
    ELSE CHOOSE t \in Slots : ~InFlight(t) /\ \A u \in Slots : ~InFlight(u) => t <= u

Supersede(sl) == IF sl.call = "none" THEN sl ELSE [sl EXCEPT !.superseded = TRUE]

-----------------------------------------------------------------------------
(* Actions                                                                 *)

\* the page is loaded: nothing cached, nothing displayed, nothing in flight
Loaded ==
    /\ variant \in Variants
    /\ now = 0
    /\ token = None
    /\ tokenExpirationTime = None
    /\ result = Status("")
    /\ isLoading = FALSE
    /\ slot = [s \in Slots |-> IdleSlot]

Init ==
    /\ Loaded
    /\ cmp = [in1 |-> <<>>, in2 |-> <<>>, category |-> "", out |-> None]

\* time passes
Tick ==
    /\ now < MaxTicks * MsPerSecond
    /\ now' = now + MsPerSecond
    /\ UNCHANGED <<variant, token, tokenExpirationTime, result, isLoading, slot, cmp>>

\* the form is submitted with these field values
handleSubmit(s, playlist1, playlist2, category) ==
    /\ s = FreeSlot
    /\ LET invalid == Validation(playlist1, playlist2, category)
           step == IF invalid # None THEN Return(Status(invalid[1]))
                   ELSE determineWinner(category) IN
       IF step.k = "await"
       THEN /\ result' = Status("Calculating...")
            /\ isLoading' = TRUE
            /\ slot' = [t \in Slots |-> IF t = s THEN step.sl ELSE Supersede(slot[t])]
       ELSE /\ result' = Outcome(step)
            /\ isLoading' = FALSE
            /\ slot' = [t \in Slots |-> IF t = s THEN IdleSlot ELSE Supersede(slot[t])]
    /\ UNCHANGED <<variant, now, token, tokenExpirationTime, cmp>>

\* the token exchange of slot s is answered; a failure makes getToken throw,
\* and the fetcher that awaited it throws its own Error in turn
TokenResponse(s, resp) ==
    /\ slot[s].wait = "token"
    /\ IF resp.ok
       THEN /\ token' = Some(resp.access_token)
            /\ tokenExpirationTime' = Some(Expiry(resp))
            /\ Resume(s, WithToken(slot[s], resp.access_token))
       ELSE /\ UNCHANGED <<token, tokenExpirationTime>>
            /\ Resume(s, Throw(FetcherError(slot[s].call)))
    /\ UNCHANGED <<variant, now, cmp>>

\* the playlist-tracks request of slot s is answered
TracksResponse(s, resp) ==
    /\ slot[s].wait = "data"
    /\ slot[s].call \in {"tracks1", "tracks2"}
    /\ LET r == getPlaylistTracks(resp) IN
       Resume(s, IF r.k = "return" THEN AfterTracks(slot[s], r.v) ELSE r)
    /\ UNCHANGED <<variant, now, token, tokenExpirationTime, cmp>>

\* the playlist-info request of slot s is answered
InfoResponse(s, resp) ==
    /\ slot[s].wait = "data"
    /\ slot[s].call \in {"info1", "info2"}
    /\ LET r == getPlaylistInfo(resp) IN
       Resume(s, IF r.k = "return" THEN AfterInfo(slot[s], r.v) ELSE r)
    /\ UNCHANGED <<variant, now, token, tokenExpirationTime, cmp>>

\* the audio-features request of slot s is answered
FeaturesResponse(s, resp) ==
    /\ slot[s].wait = "data"
    /\ slot[s].call \in {"features1", "features2"}
    /\ LET r == getAudioFeatures(resp) IN
       Resume(s, IF r.k = "return" THEN AfterFeatures(slot[s], r.v) ELSE r)
    /\ UNCHANGED <<variant, now, token, tokenExpirationTime, cmp>>

SideOf(call) == IF call \in {"tracks1", "info1", "features1"} THEN 1 ELSE 2

Next ==
    \/ Tick
    \/ \E s \in Slots, playlist1 \in Urls, playlist2 \in Urls, category \in CategoryChoices :
          handleSubmit(s, playlist1, playlist2, category)
    \/ \E s \in Slots, resp \in TokenResponses : TokenResponse(s, resp)
    \/ \E s \in Slots, resp \in TracksResponses : TracksResponse(s, resp)
    \/ \E s \in Slots : \E resp \in InfoResponses(SideOf(slot[s].call)) : InfoResponse(s, resp)
    \/ \E s \in Slots, resp \in FeaturesResponses : FeaturesResponse(s, resp)

Spec == Init /\ [][Next]_vars

-----------------------------------------------------------------------------
(* The comparator taken alone: the last part of determineWinner applied to *)
(* every pair of inputs up to MaxLen entries                               *)

\* entries of response.data.items, with and without track, id and popularity
CmpItems ==
    { NoTrackItem,
      Item(None, Some(30)),
      Item(Some(TrackId22), None),
      Item(Some(TrackId22), Some(10)),
      Item(Some(TrackId22), Some(20)),
      Item(Some(TrackId22), Some(30)) }

\* entries of audio_features, null among them
CmpFeatures ==
    { None,
      Some(FeatureRecord(Some(2), Some(8), Some(-6))),
      Some(FeatureRecord(Some(8), None, Some(-3))),
      Some(FeatureRecord(Some(0), Some(4), Some(-9))),
      Some(FeatureRecord(None, Some(4), None)) }

CmpInfo(side) == [name |-> PlaylistName(side), image |-> PlaylistCover(side)]

\* the inputs: item lists (popularity variant), non-empty audio-feature lists
\* (getAudioFeatures never returns an empty one)
CmpItemLists == SeqsUpTo(CmpItems, MaxLen)
CmpFeatureLists == SeqsUpTo(CmpFeatures, MaxLen) \ {<<>>}

\* the first playlist's input and the category are drawn
InitCmp ==
    /\ Loaded
    /\ \/ /\ variant = "popularity"
          /\ \E in1 \in CmpItemLists :
                cmp = [in1 |-> in1, in2 |-> <<>>, category |-> "", out |-> None]
       \/ /\ variant = "category"
          /\ \E in1 \in CmpFeatureLists, category \in Categories :
                cmp = [in1 |-> in1, in2 |-> <<>>, category |-> category, out |-> None]

\* determineWinner from the point where its four fetches have returned, in2
\* being the second playlist's input
Compare(in2) ==
    /\ cmp.out = None
    /\ cmp' = [cmp EXCEPT
                 !.in2 = in2,
                 !.out = Some(determineWinnerCatch(
                   IF variant = "popularity"
                   THEN PopularityVerdict(PopularityTracks(cmp.in1), PopularityTracks(in2),
                                          CmpInfo(1), CmpInfo(2))
                   ELSE CategoryVerdict(cmp.in1, in2, cmp.category)))]
    /\ UNCHANGED <<variant, now, token, tokenExpirationTime, result, isLoading, slot>>

NextCmp ==
    \E in2 \in (IF variant = "popularity" THEN CmpItemLists ELSE CmpFeatureLists) :
        Compare(in2)

SpecCmp == InitCmp /\ [][NextCmp]_vars

-----------------------------------------------------------------------------
(* Claims about the credential provider and the form (under Spec)          *)

Calls == {"tracks1", "tracks2", "info1", "info2", "features1", "features2"}

\* slot s has begun a fetch in this step, whose first statement awaits getToken()
Called(s) == slot'[s].call # slot[s].call /\ slot'[s].call # "none"

\* C1: a getToken call that finds a cached token whose expiry is strictly later
\* than the current time returns that token and issues no exchange; any other
\* call issues one exchange and awaits it, and when the exchange succeeds the
\* cached token is replaced by the granted one and the cached expiry becomes
\* the time of the answer plus expires_in seconds.  An exchange is issued by
\* nothing else, and a failed one leaves the cache as it was.
C1_GetTokenCache ==
    [][\A s \in Slots :
        LET cached == token # None /\ tokenExpirationTime # None
                        /\ tokenExpirationTime[1] > now IN
        /\ (Called(s) /\ cached) =>
              /\ slot'[s].wait = "data"
              /\ slot'[s].bearer = token
              /\ UNCHANGED <<token, tokenExpirationTime>>
        /\ (Called(s) /\ ~cached) =>
              /\ slot'[s].wait = "token"
              /\ UNCHANGED <<token, tokenExpirationTime>>
        /\ (slot'[s].wait = "token" /\ slot[s].wait # "token") => (Called(s) /\ ~cached)
        /\ (slot[s].wait = "token" /\ slot'[s].wait # "token") =>
              \/ /\ UNCHANGED <<token, tokenExpirationTime>>
                 /\ slot'[s].call = "none"
              \/ \E grant \in TokenGrants :
                    /\ token' = Some(grant.access_token)
                    /\ tokenExpirationTime' = Some(now + grant.expires_in * MsPerSecond)
                    /\ slot'[s].wait = "data" =>
                          /\ slot'[s].call = slot[s].call
                          /\ slot'[s].bearer = token'
      ]_vars

\* C1 happens: tokenB, a grant of two seconds, was cached when the clock
\* stood at one second, and a later fetch of a comparison carries it
C1_Witness ==
    /\ now = MsPerSecond
    /\ token = Some("tokenB")
    /\ tokenExpirationTime = Some(now + 2 * MsPerSecond)
    /\ \E s \in Slots :
          /\ slot[s].call \in Calls \ {"tracks1"}
          /\ slot[s].wait = "data"
          /\ slot[s].bearer = token

\* the playlist pattern, read off the claim: "playlist/" followed by 22
\* alphanumeric characters, anywhere in the input
HasPlaylistPattern(url) ==
    \E before \in 0..Len(url) :
        /\ before + Len(PlaylistPrefix) + IdLen <= Len(url)
        /\ \A k \in 1..Len(PlaylistPrefix) : url[before + k] = PlaylistPrefix[k]
        /\ \A k \in 1..IdLen : url[before + Len(PlaylistPrefix) + k] \in Alnum

PatternTable[url \in Urls] == HasPlaylistPattern(url)

\* this step is a submission whose input has an empty required field or a
\* playlist field without the pattern (a submission changes neither the clock
\* nor what the comparisons in flight await, which is tested first)
InvalidSubmission ==
    /\ now' = now
    /\ \A s \in Slots : InFlight(s) =>
          (slot'[s].call = slot[s].call /\ slot'[s].wait = slot[s].wait)
    /\ \E playlist1 \in Urls, playlist2 \in Urls, category \in CategoryChoices :
          /\ \/ playlist1 = <<>> \/ playlist2 = <<>>
             \/ (variant = "category" /\ category = "")
             \/ ~PatternTable[playlist1] \/ ~PatternTable[playlist2]
          /\ \E s \in Slots : handleSubmit(s, playlist1, playlist2, category)

\* this step ends with a validation message displayed and no request issued
RejectedAtOnce ==
    /\ result' \in { Status("Invalid playlist link!"), Status("Please fill in all fields!") }
    /\ ~isLoading'
    /\ \A s \in Slots : slot'[s].call = slot[s].call /\ slot'[s].wait = slot[s].wait

\* C2: a submission with an empty required field, or with a playlist input
\* that does not contain the pattern, ends at once with one of the two
\* validation messages, is kept in no slot and issues no request
C2_InvalidInputNoRequest == [][RejectedAtOnce \/ ~InvalidSubmission]_vars

\* C2 happens: a rejected link is displayed while nothing is in flight; no
\* comparison has run, since nothing was ever cached
C2_Witness ==
    /\ result = Status("Invalid playlist link!")
    /\ ~isLoading
    /\ token = None
    /\ \A s \in Slots : ~InFlight(s)

-----------------------------------------------------------------------------
(* Claims about the pipeline (under Spec)                                  *)

\* the fetch that follows each fetch of a comparison
NextCall(call) ==
    CASE call = "none" -> "tracks1"
      [] call = "tracks1" -> "tracks2"
      [] call = "tracks2" -> IF variant = "popularity" THEN "info1" ELSE "features1"
      [] call = "info1" -> "info2"
      [] call = "features1" -> "features2"
      [] OTHER -> "none"

\* the request slot s awaits fails in this step
RequestFails(s) ==
    \E resp \in HttpFailures :
        \/ TokenResponse(s, resp)
        \/ TracksResponse(s, resp)
        \/ InfoResponse(s, resp)
        \/ FeaturesResponse(s, resp)

\* C7: a comparison awaits one request at a time, in the order tracks of
\* playlist 1, tracks of playlist 2, then info or features of playlist 1, then
\* of playlist 2, each fetch preceded by a token exchange only when it needs
\* one; when a request fails the comparison issues nothing more and shows
\* "Error fetching playlist data!", whichever request it was
C7_SequentialFailFast ==
    [][\A s \in Slots :
        /\ slot'[s].call # slot[s].call =>
              slot'[s].call \in {NextCall(slot[s].call), "none"}
        /\ (slot'[s].call = slot[s].call /\ slot'[s].wait # slot[s].wait) =>
              (slot[s].wait = "token" /\ slot'[s].wait = "data")
        /\ RequestFails(s) =>
              /\ slot' = [slot EXCEPT ![s] = IdleSlot]
              /\ result' = Status("Error fetching playlist data!")
              /\ ~isLoading'
      ]_vars

\* C7 happens: the error status is displayed after a comparison that got as
\* far as holding a token, and nothing is in flight any more
C7_Witness ==
    /\ result = Status("Error fetching playlist data!")
    /\ ~isLoading
    /\ token # None
    /\ \A s \in Slots : ~InFlight(s)

\* the answers to the audio-features request, other than HTTP 429, that make
\* getAudioFeatures fail
OtherFeatureFailures ==
    {resp \in FeaturesResponses \ {HttpFailure(RateLimitStatus)} :
        getAudioFeatures(resp).k = "throw"}

\* C4 as claimed: what is displayed after an audio-features request failed
\* with HTTP 429 differs from what any other audio-features failure displays
C4_RateLimitedDistinct ==
    [][\A s \in Slots :
        FeaturesResponse(s, HttpFailure(RateLimitStatus)) =>
            \A other \in OtherFeatureFailures :
                result' # Outcome(determineWinnerCatch(getAudioFeatures(other)))
      ]_vars

\* C8 as claimed: no comparison goes on with an empty track sequence as the
\* value of a getPlaylistTracks call
C8_EmptyTracksFail ==
    \A s \in Slots : slot[s].tracks1 # Some(<<>>) /\ slot[s].tracks2 # Some(<<>>)

\* C9 as claimed: at most one token exchange is in flight
C9_SingleExchange ==
    Cardinality({s \in Slots : slot[s].wait = "token"}) <= 1

\* C10 as claimed: a submission that settles after a later one has started
\* leaves the displayed result as it is
C10_LateResultIgnored ==
    [][\A s \in Slots :
        (InFlight(s) /\ slot[s].superseded /\ slot'[s].call = "none") => result' = result
      ]_vars

-----------------------------------------------------------------------------
(* Claims about the comparator (under SpecCmp)                             *)

RECURSIVE SumSeq(_)
SumSeq(q) == IF q = <<>> THEN 0 ELSE Head(q) + SumSeq(Tail(q))

\* mean(p) < mean(q) for two non-empty sequences of numbers
MeanLower(p, q) == SumSeq(p) * Len(q) < SumSeq(q) * Len(p)
MeanEqual(p, q) == SumSeq(p) * Len(q) = SumSeq(q) * Len(p)

\* the popularities of the entries of an item list that have a track with an
\* id, a missing popularity counting as 0
Popularities(items) ==
    LET Resolvable(item) == item.track # None /\ item.track[1].id # None
        kept == SelectSeq(items, Resolvable) IN
    [i \in 1..Len(kept) |->
        IF kept[i].track[1].popularity = None THEN 0 ELSE kept[i].track[1].popularity[1]]

\* the feature a category is judged by
FeatureOf(category) ==
    CASE category \in {"Sadder", "Happier"} -> "valence"
      [] category = "Energetic" -> "energy"
      [] category = "Danceable" -> "danceability"
      [] category = "Louder" -> "loudness"
      [] category = "Alive" -> "liveness"

\* the values of a feature over a list of feature records, a missing value
\* counting as 0
FeatureValues(audioFeatures, key) ==
    [i \in 1..Len(audioFeatures) |->
        IF audioFeatures[i][1][key] = None THEN 0 ELSE audioFeatures[i][1][key][1]]

NoNullEntry(audioFeatures) == \A i \in 1..Len(audioFeatures) : audioFeatures[i] # None

\* the verdict that names playlist number side as the winner of a category
WinnerMessage(side, category) ==
    (IF side = 1 THEN "Playlist 1" ELSE "Playlist 2")
        \o (IF category = "Sadder" THEN " is sadder" ELSE " is more " \o toLowerCase(category))

\* the result that highlights playlist number side as the more underground one
Highlight(side) ==
    [name |-> PlaylistName(side), image |-> PlaylistCover(side),
     message |-> PlaylistName(side) \o " is more underground, smell some good taste in there!"]

Compared == cmp.out # None

\* C3 as claimed: whenever the two means are equal the verdict is a "both
\* equal" one that names neither playlist, in both variants and every category
C3_TieIsEqual ==
    (Compared /\ cmp.out[1].k = "return") =>
        IF variant = "popularity"
        THEN MeanEqual(Popularities(cmp.in1), Popularities(cmp.in2)) =>
                /\ cmp.out[1].v.message = "Both playlists are equally underground!"
                /\ cmp.out[1].v.name \notin {PlaylistName(1), PlaylistName(2)}
        ELSE MeanEqual(FeatureValues(cmp.in1, FeatureOf(cmp.category)),
                       FeatureValues(cmp.in2, FeatureOf(cmp.category))) =>
                cmp.out[1].v \notin {WinnerMessage(1, cmp.category), WinnerMessage(2, cmp.category)}

\* C5: in the popularity variant, when both playlists have tracks and one
\* mean popularity is strictly lower than the other, determineWinner returns
\* the name and cover of the playlist with the lower mean, with the message
\* that names it as more underground
C5_LowerMeanHighlighted ==
    (Compared /\ variant = "popularity") =>
        LET p1 == Popularities(cmp.in1)
            p2 == Popularities(cmp.in2) IN
        (Len(p1) > 0 /\ Len(p2) > 0) =>
            /\ cmp.out[1].k = "return"
            /\ MeanLower(p1, p2) => cmp.out[1].v = Highlight(1)
            /\ MeanLower(p2, p1) => cmp.out[1].v = Highlight(2)

\* C5 happens: popularities [10, 20] against [30]; the first playlist, whose
\* mean is lower, is the one returned
C5_Witness ==
    /\ Compared /\ variant = "popularity"
    /\ cmp.in1 = <<Item(Some(TrackId22), Some(10)), Item(Some(TrackId22), Some(20))>>
    /\ cmp.in2 = <<Item(Some(TrackId22), Some(30))>>
    /\ cmp.out[1] = Return(Highlight(1))

====
